---- MODULE Spec2Model ----
(***************************************************************************)
(* Model of src/app.py: the hero-carousel locator (find_hero_carousel)     *)
(* and the capture session (capture_hero_banners).                         *)
(*                                                                         *)
(* A page is the sequence of its .cmp-carousel elements in document order. *)
(* Each element carries what the code queries of it: the excluded wrapper  *)
(* it is nested in, the ancestors the structural selectors test, its       *)
(* indicator count, its bounding box, its content markers, whether its     *)
(* text holds a notice keyword and whether a swiper instance is attached.  *)
(***************************************************************************)
EXTENDS Integers, Sequences, FiniteSets, TLC

VARIABLES
    page,                 \* the DOM: carousels in document order
    mode,                 \* 'desktop' | 'mobile'
    pc,                   \* position in capture_hero_banners / find_hero_carousel
    hero,                 \* hero_carousel: index into page, 0 = None
    fallback_ran,         \* the scoring fallback of find_hero_carousel was run
    browser,              \* "none" | "open" | "closed" (browser.close() was called)
    num_slides,           \* len(indicators); -1 while not yet assigned
    i,                    \* frame index of the outer loop (0-based)
    attempt,              \* attempt index of the inner loop (0..3)
    current_sig,          \* signature_data['sig'] of the running attempt
    is_correct_index,     \* signature_data['match'] of the running attempt
    captured_signatures,  \* the session's list of captured signatures
    results,              \* the values yielded so far, in order
    navTarget,            \* carousel the last force-navigate acted on
    sanitized,            \* apply_clean_styles has run on the page
    failed_verifies,      \* attempts of frame i whose verify found a duplicate or a mismatch
    outcome,              \* how the session ended
    country_code,         \* the site of the session
    upload_to_cloud,      \* parameter upload_to_cloud
    credentials,          \* the three Cloudinary settings are all present
    sig_pool,             \* the signatures the slides of the page render
    clock,                \* datetime.now() when the session begins
    session_path,         \* the session directory
    log,                  \* kinds of the messages logged so far
    active_slide_selector,\* "indexed" | "generic" | "none"
    element,              \* what the banner selectors resolved: "handle" | "None"
    route_installed,      \* page.route has registered block_chat_requests
    dom,                  \* what apply_clean_styles touches of the document
    open_browsers,        \* browsers launched and not closed
    last_request,         \* the last request of the page and its decisions
    applied,              \* calls of apply_clean_styles on dom by ApplyCleanStyles
    last_call,            \* the last call of an upload or save function and its transports
    capture_queue,        \* main: the sites of the batch
    qi,                   \* main: position in capture_queue (1-based)
    stop_requested,       \* st.session_state.stop_requested
    mpc,                  \* position in main's batch loop
    history,              \* main: outcomes of the finished sessions
    airtable_records      \* the records created in the Airtable table, in order

vars == <<page, mode, pc, hero, fallback_ran, browser, num_slides, i, attempt,
          current_sig, is_correct_index, captured_signatures, results,
          navTarget, sanitized, failed_verifies, outcome,
          country_code, upload_to_cloud, credentials, sig_pool, clock,
          session_path, log, active_slide_selector, element, route_installed, dom,
          open_browsers, last_request, applied, last_call,
          capture_queue, qi, stop_requested, mpc, history, airtable_records>>

(***************************************************************************)
(* Bounds of the model.                                                    *)
(***************************************************************************)
MaxCarousels == 2     \* carousels on a page given to the locator
MaxSlides == 5        \* indicators read from the located carousel

(***************************************************************************)
(* find_hero_carousel                                                      *)
(***************************************************************************)

\* excluded_wrappers (line 280), by class name.
excluded_wrappers == {"c-notification-banner", "l-cookie-teaser", "c-membership-popup"}

\* hero_selectors (lines 282-290): the ancestor each "<ancestor> .cmp-carousel"
\* selector asks for, in the code's order. "[class*='hero']" is the fifth.
hero_selectors == <<"main", ".main-content", ".hero-section", ".c-hero-section",
                    "[class*='hero']", ".content", "section">>

\* Classes whose name contains 'hero' among the ancestors the fixtures use.
HeroClasses == {".hero-section", ".c-hero-section"}

\* page.query_selector_all(selector) holds element c.
SelectorMatches(selector, c) ==
    IF selector = "[class*='hero']"
    THEN c.anc \cap HeroClasses # {}
    ELSE selector \in c.anc

\* el.closest(excluded_wrappers) is not null (lines 297, 322).
is_in_excluded(c) == c.wrapper \in excluded_wrappers

\* viewport width of the mode (lines 422, 318-319).
ViewportWidth(m) == IF m = "desktop" THEN 1920 ELSE 360

\* Variant of StructuralAccepts with the height bound taken strictly.
StructuralAcceptsStrict(c) ==
    /\ c.nInd > 0
    /\ c.bbox.present
    /\ c.bbox.height > 300

\* The acceptance test of the structural pass (lines 301-304).
StructuralAccepts(c) ==
    /\ c.nInd > 0
    /\ c.bbox.present
    /\ c.bbox.height >= 300

\* Lines 296-307: the elements of one selector in document order, from
\* position k on; the first accepted one, 0 when none is.
RECURSIVE ScanElements(_, _, _)
ScanElements(pg, selector, k) ==
    IF k > Len(pg) THEN 0
    ELSE IF ~SelectorMatches(selector, pg[k]) THEN ScanElements(pg, selector, k + 1)
    ELSE IF is_in_excluded(pg[k]) THEN ScanElements(pg, selector, k + 1)
    ELSE IF StructuralAccepts(pg[k]) THEN k
    ELSE ScanElements(pg, selector, k + 1)

\* Lines 292-311: the selectors in order, from selector s on.
RECURSIVE StructuralPass(_, _)
StructuralPass(pg, s) ==
    IF s > Len(hero_selectors) THEN 0
    ELSE LET e == ScanElements(pg, hero_selectors[s], 1)
         IN  IF e # 0 THEN e ELSE StructuralPass(pg, s + 1)

\* Lines 346-357: the keyword test runs inside try ... except: pass, so a
\* carousel whose inner_text() raises (text_raises) is never found to hold
\* a keyword, whatever its visible text (text_kw) is.
KeywordDetected(c) == ~c.text_raises /\ c.text_kw

\* Variant of Filtered without the excluded-wrapper test.
FilteredKeepsExcluded(c, viewport_width) ==
    \/ c.nInd = 0
    \/ ~c.bbox.present
    \/ c.bbox.height < 200
    \/ 2 * c.bbox.width < viewport_width
    \/ KeywordDetected(c)

\* Lines 321-357: the carousel is dropped before scoring.
Filtered(c, viewport_width) ==
    \/ is_in_excluded(c)
    \/ c.nInd = 0
    \/ ~c.bbox.present
    \/ c.bbox.height < 200
    \/ 2 * c.bbox.width < viewport_width
    \/ KeywordDetected(c)

\* Variant of HeightScore with three independent if statements.
HeightScoreStacked(h) ==
    (IF h > 400 THEN 50 ELSE 0) + (IF h > 300 THEN 30 ELSE 0) + (IF h > 200 THEN 10 ELSE 0)

\* Lines 359-386.
HeightScore(h) == IF h > 400 THEN 50 ELSE IF h > 300 THEN 30 ELSE IF h > 200 THEN 10 ELSE 0

PositionScore(y) ==
    IF 100 < y /\ y < 600 THEN 25
    ELSE IF 50 < y /\ y < 100 THEN -20
    ELSE IF y < 50 THEN -100
    ELSE 0

WidthScore(w, viewport_width) ==
    IF 10 * w > 9 * viewport_width THEN 20
    ELSE IF 10 * w > 8 * viewport_width THEN 15
    ELSE 0

Score(c, viewport_width) ==
      (IF c.has_hero_banner THEN 100 ELSE 0)
    + (IF c.has_hero_image THEN 50 ELSE 0)
    + (IF c.bbox.width * c.bbox.height > 500000 THEN 30 ELSE 0)
    + HeightScore(c.bbox.height)
    + PositionScore(c.bbox.y)
    + WidthScore(c.bbox.width, viewport_width)

\* Lines 321-398: the candidates list, in document order, from position k on.
RECURSIVE Candidates(_, _, _)
Candidates(pg, viewport_width, k) ==
    IF k > Len(pg) THEN <<>>
    ELSE IF Filtered(pg[k], viewport_width) THEN Candidates(pg, viewport_width, k + 1)
    ELSE <<[index |-> k, score |-> Score(pg[k], viewport_width)]>>
         \o Candidates(pg, viewport_width, k + 1)

\* candidates.sort(key=score, reverse=True) (line 401): a stable sort, so
\* candidates of equal score keep their document order.
RECURSIVE InsertByScore(_, _)
InsertByScore(x, sorted) ==
    IF sorted = <<>> THEN <<x>>
    ELSE IF x.score >= Head(sorted).score THEN <<x>> \o sorted
    ELSE <<Head(sorted)>> \o InsertByScore(x, Tail(sorted))

RECURSIVE SortByScore(_)
SortByScore(cands) ==
    IF cands = <<>> THEN <<>>
    ELSE InsertByScore(Head(cands), SortByScore(Tail(cands)))

\* Variant of BestIsSuitable that lets a score of 0 pass.
BestIsSuitableFromZero(best) == best.score >= 0

\* best['score'] > 0 (line 404).
BestIsSuitable(best) == best.score > 0

\* Lines 313-411: the scoring fallback; 0 when it selects nothing.
ScoringFallback(pg, viewport_width) ==
    LET candidates == SortByScore(Candidates(pg, viewport_width, 1))
    IN  IF candidates = <<>> THEN 0
        ELSE IF BestIsSuitable(candidates[1]) THEN candidates[1].index
        ELSE 0

\* Lines 268-413.
find_hero_carousel(pg, viewport_width) ==
    LET structural == StructuralPass(pg, 1)
    IN  IF structural # 0
        THEN [carousel |-> structural, fallback |-> FALSE]
        ELSE [carousel |-> ScoringFallback(pg, viewport_width), fallback |-> TRUE]

(***************************************************************************)
(* Fixtures given to the locator.                                          *)
(***************************************************************************)
NoBox == [present |-> FALSE, y |-> 0, width |-> 0, height |-> 0]
Box(y, w, h) == [present |-> TRUE, y |-> y, width |-> w, height |-> h]

LocatorBoxes ==
    { Box(300, 1920, 450),    \* a full-width banner below the header
      Box(0, 1920, 300),      \* at the top of the page, exactly 300 high
      Box(0, 1500, 200) }     \* at the top, exactly 200 high, under 80% wide

LocatorAncestors == {{}, {"main"}, {"section"}}

\* Carousels with indicators and a bounding box, in and out of a
\* notification banner.
PlainKinds ==
    [ wrapper : {"none", "c-notification-banner"},
      anc : LocatorAncestors,
      nInd : {3},
      bbox : LocatorBoxes,
      has_hero_banner : BOOLEAN,
      has_hero_image : {FALSE},
      text_kw : {FALSE},
      text_raises : {FALSE},
      swiper : {TRUE} ]

\* A full-width banner with the hero-banner marker that one test of the
\* locator rejects: in a cookie teaser or a membership popup, without an
\* indicator, without a bounding box, too narrow, or with a notice keyword
\* (its inner_text() answering or raising).
RejectedKinds ==
    UNION {
      [ wrapper : {"l-cookie-teaser", "c-membership-popup"}, anc : LocatorAncestors,
        nInd : {3}, bbox : {Box(300, 1920, 450)}, has_hero_banner : {TRUE},
        has_hero_image : {FALSE}, text_kw : {FALSE},
        text_raises : {FALSE}, swiper : {TRUE} ],
      [ wrapper : {"none"}, anc : LocatorAncestors,
        nInd : {0}, bbox : {Box(300, 1920, 450)}, has_hero_banner : {TRUE},
        has_hero_image : {FALSE}, text_kw : {FALSE},
        text_raises : {FALSE}, swiper : {TRUE} ],
      [ wrapper : {"none"}, anc : LocatorAncestors,
        nInd : {3}, bbox : {NoBox, Box(300, 900, 450)}, has_hero_banner : {TRUE},
        has_hero_image : {FALSE}, text_kw : {FALSE},
        text_raises : {FALSE}, swiper : {TRUE} ],
      [ wrapper : {"none"}, anc : LocatorAncestors,
        nInd : {3}, bbox : {Box(300, 1920, 450)}, has_hero_banner : {TRUE},
        has_hero_image : {FALSE}, text_kw : {TRUE},
        text_raises : BOOLEAN, swiper : {TRUE} ] }

LocatorKinds == PlainKinds \cup RejectedKinds

SeqsUpTo(S, n) == UNION { [1..k -> S] : k \in 0..n }

LocatorPages == SeqsUpTo(LocatorKinds, MaxCarousels)

(***************************************************************************)
(* The locator alone, on every fixture.                                    *)
(***************************************************************************)
\* find_hero_carousel is called on a loaded page of an open browser
\* (line 472); nothing of the session has happened yet.
LocatorStart ==
    /\ mode = "desktop"
    /\ pc = "ready"
    /\ hero = 0
    /\ fallback_ran = FALSE
    /\ browser = "open"
    /\ num_slides = -1
    /\ i = 0
    /\ attempt = 0
    /\ current_sig = "null"
    /\ is_correct_index = FALSE
    /\ captured_signatures = <<>>
    /\ results = <<>>
    /\ navTarget = 0
    /\ sanitized = FALSE
    /\ failed_verifies = 0
    /\ outcome = "running"
    /\ country_code = "xx"
    /\ upload_to_cloud = FALSE
    /\ credentials = TRUE
    /\ sig_pool = {}
    /\ clock = "20240101_090000"
    /\ session_path = <<>>
    /\ log = {}
    /\ active_slide_selector = "none"
    /\ element = "None"
    /\ route_installed = TRUE
    /\ dom = [ notification_banners |-> 0, style_elements |-> 0, inline_hidden |-> {},
               inline_transparent |-> {}, playing |-> {} ]
    /\ open_browsers = 1
    /\ last_request = [url |-> <<>>, aborts |-> 0, continues |-> 0]
    /\ applied = 0
    /\ last_call = [function |-> "none", configured |-> FALSE, sdk_ok |-> FALSE,
                    fallback_ok |-> FALSE, sdk_calls |-> 0, fallback_calls |-> 0,
                    returned |-> "None", raised |-> FALSE, created |-> <<>>]
    /\ capture_queue = <<>>
    /\ qi = 0
    /\ stop_requested = FALSE
    /\ mpc = "direct"
    /\ history = <<>>
    /\ airtable_records = <<>>

InitLocator ==
    /\ page \in LocatorPages
    /\ LocatorStart

(***************************************************************************)
(* The scoring fallback alone, on one carousel outside every structural    *)
(* selector whose box lies on and around the thresholds of the score.      *)
(***************************************************************************)
ScoreBoxes ==
    { Box(y, w, h) :
        y \in {0, 49, 50, 51, 99, 100, 101, 599, 600},
        w \in {959, 960, 1000, 1536, 1537, 1728, 1729},
        h \in {199, 200, 201, 300, 301, 400, 401, 500, 501, 521} }

ScoreKinds ==
    [ wrapper : {"none"}, anc : {{}}, nInd : {3}, bbox : ScoreBoxes,
      has_hero_banner : BOOLEAN, has_hero_image : BOOLEAN, text_kw : {FALSE},
      text_raises : {FALSE}, swiper : {TRUE} ]

ScorePages == [1..1 -> ScoreKinds]

InitScore ==
    /\ page \in ScorePages
    /\ LocatorStart

(***************************************************************************)
(* capture_hero_banners                                                    *)
(***************************************************************************)

\* Fixtures of the capture session: carousels as they occur on the target pages.
HeroCarousel ==
    [ wrapper |-> "none", anc |-> {"main"}, nInd |-> 3, bbox |-> Box(300, 1920, 450),
      has_hero_banner |-> TRUE, has_hero_image |-> TRUE, text_kw |-> FALSE,
      text_raises |-> FALSE, swiper |-> TRUE ]

\* A hero carousel outside the structural selectors, found by scoring only.
ScoredCarousel ==
    [ wrapper |-> "none", anc |-> {"#contents"}, nInd |-> 3, bbox |-> Box(300, 1920, 450),
      has_hero_banner |-> TRUE, has_hero_image |-> FALSE, text_kw |-> FALSE,
      text_raises |-> FALSE, swiper |-> TRUE ]

\* The notification strip above the header: a carousel in an excluded wrapper.
NoticeCarousel ==
    [ wrapper |-> "c-notification-banner", anc |-> {"main"}, nInd |-> 2,
      bbox |-> Box(0, 1920, 60), has_hero_banner |-> FALSE, has_hero_image |-> FALSE,
      text_kw |-> TRUE, text_raises |-> FALSE, swiper |-> TRUE ]

\* A low promotional strip that precedes the hero carousel, without swiper.
StripCarousel ==
    [ wrapper |-> "none", anc |-> {"main"}, nInd |-> 2, bbox |-> Box(60, 1920, 150),
      has_hero_banner |-> FALSE, has_hero_image |-> TRUE, text_kw |-> FALSE,
      text_raises |-> FALSE, swiper |-> FALSE ]

SessionPages ==
    { <<HeroCarousel>>,
      <<ScoredCarousel>>,
      <<NoticeCarousel, HeroCarousel>>,
      <<StripCarousel, HeroCarousel>>,
      <<StripCarousel>>,
      <<>> }

\* The signatures a frame can render; "null" is what the verify script
\* returns when no slide is active (line 525).
Signatures == {"img1|A", "img2|B", "img3|C"}

Range(s) == { s[k] : k \in DOMAIN s }

\* Variant of SlideNum that keeps the 0-based index.
SlideNumZeroBased(idx) == idx

\* slide_num = i + 1 (line 486).
SlideNum(idx) == idx + 1

\* Variant of InRange with the bound included.
InRangeInclusive(idx, n) == idx <= n

\* for i in range(num_slides) (line 485): the loop body runs for index idx.
InRange(idx, n) == idx < n

\* for attempt in range(4) (line 490): another attempt follows attempt a.
HasNextAttempt(a) == a + 1 < 4

\* Variant of RetryOnMismatch that retries for as long as the index differs.
RetryOnMismatchUnbounded(match, a) == ~match

\* Lines 544 and 549: the verify step sends the attempt back to navigation.
RetryOnDuplicate(sig, captured, a) == sig \in Range(captured) /\ a < 3
RetryOnMismatch(match, a) == ~match /\ a < 3

\* The carousels still in the document: apply_clean_styles removes every
\* .c-notification-banner element (line 220).
InDocument(pg, clean, k) ==
    k \in DOMAIN pg /\ ~(clean /\ pg[k].wrapper = "c-notification-banner")

\* document.querySelector('.cmp-carousel') (line 496): the first carousel of
\* the document, 0 when there is none.
FirstCarousel(pg, clean) ==
    IF \E k \in DOMAIN pg : InDocument(pg, clean, k)
    THEN CHOOSE k \in DOMAIN pg :
            /\ InDocument(pg, clean, k)
            /\ \A j \in DOMAIN pg : InDocument(pg, clean, j) => k <= j
    ELSE 0

\* document.querySelectorAll('.cmp-carousel__indicator')[idx] (lines 507-508):
\* the carousel that owns the idx-th indicator of the document, 0 when there
\* are not that many indicators.
RECURSIVE IndicatorOwner(_, _, _, _)
IndicatorOwner(pg, clean, idx, k) ==
    IF k > Len(pg) THEN 0
    ELSE IF ~InDocument(pg, clean, k) THEN IndicatorOwner(pg, clean, idx, k + 1)
    ELSE IF idx < pg[k].nInd THEN k
    ELSE IndicatorOwner(pg, clean, idx - pg[k].nInd, k + 1)

\* Lines 494-511: the carousel the force-navigate script acts on.
NavTarget(pg, clean, idx) ==
    LET car == FirstCarousel(pg, clean)
    IN  IF car # 0 /\ pg[car].swiper THEN car
        ELSE IndicatorOwner(pg, clean, idx, 1)

\* "main .cmp-carousel, .main .cmp-carousel, #contents .cmp-carousel" (line 470).
WaitSelectorPresent(pg) ==
    \E k \in DOMAIN pg : pg[k].anc \cap {"main", ".main", "#contents"} # {}

\* The signatures of the slides of a carousel with MaxSlides + 1 frames or
\* fewer: what the verify script can return when every frame differs.
AllSignatures == {"img1|A", "img2|B", "img3|C", "img4|D", "img5|E", "img6|F"}

\* datetime.now().strftime('%Y%m%d_%H%M%S') (line 424).
Timestamps == {"20240101_090000", "20240101_090500"}

\* session_folder_name = f"{country_code}_{mode}_{timestamp}" (line 424).
SessionFolderName(site, m, now) == <<site, "_", m, "_", now>>

\* Variant of FileName that numbers the file by the 0-based frame index.
FileNameByIndex(site, m, slide_num) == <<site, "_", m, "_hero_", slide_num - 1, ".jpg">>

\* filename = f"{country_code}_{mode}_hero_{slide_num}.jpg" (line 562).
FileName(site, m, slide_num) == <<site, "_", m, "_hero_", slide_num, ".jpg">>

\* filepath = os.path.join(session_path, filename) (line 563).
FilePath(folder, filename) == [dir |-> folder, name |-> filename]

\* Variant of upload_to_cloudinary without the outer except clause: the
\* failure of the fallback transport leaves the function as an exception.
upload_to_cloudinary_unguarded(creds, sdk_ok, fallback_ok) ==
    IF ~creds
    THEN [url |-> "None", transport |-> "none", raised |-> FALSE,
          sdk_calls |-> 0, fallback_calls |-> 0]
    ELSE IF sdk_ok
    THEN [url |-> "secure_url", transport |-> "sdk", raised |-> FALSE,
          sdk_calls |-> 1, fallback_calls |-> 0]
    ELSE IF fallback_ok
    THEN [url |-> "secure_url", transport |-> "requests", raised |-> FALSE,
          sdk_calls |-> 1, fallback_calls |-> 1]
    ELSE [url |-> "None", transport |-> "requests", raised |-> TRUE,
          sdk_calls |-> 1, fallback_calls |-> 1]

\* upload_to_cloudinary (lines 90-146): without credentials (None, None) is
\* returned at once (lines 92-94); else the SDK uploads (lines 108-117); when
\* it raises, the direct request is the fallback (lines 118-142); when that
\* raises as well the outer except returns (None, None) (lines 144-146).
\* transport is the last transport tried, raised whether an exception leaves
\* the function, sdk_calls and fallback_calls how often cloudinary.uploader
\* .upload (line 109) and requests.post (line 138) were called.
upload_to_cloudinary(creds, sdk_ok, fallback_ok) ==
    IF ~creds
    THEN [url |-> "None", transport |-> "none", raised |-> FALSE,
          sdk_calls |-> 0, fallback_calls |-> 0]
    ELSE IF sdk_ok
    THEN [url |-> "secure_url", transport |-> "sdk", raised |-> FALSE,
          sdk_calls |-> 1, fallback_calls |-> 0]
    ELSE IF fallback_ok
    THEN [url |-> "secure_url", transport |-> "requests", raised |-> FALSE,
          sdk_calls |-> 1, fallback_calls |-> 1]
    ELSE [url |-> "None", transport |-> "requests", raised |-> FALSE,
          sdk_calls |-> 1, fallback_calls |-> 1]

\* banner_type_label (line 159).
BannerType(m) == IF m = "desktop" THEN "hero-banner-pc" ELSE "hero-banner-mo"

\* The record of lines 172-178 and 194-202: the site, the banner type and
\* the URLs joined in the order of the list (line 165).
AirtableRecord(site, m, urls) ==
    [domain |-> site, banner_type |-> BannerType(m), URLs |-> urls]

\* Variant of save_to_airtable that posts the direct request after the
\* pyairtable call whether that call raised or not.
save_to_airtable_posts_always(creds, sdk_ok, fallback_ok, site, m, urls) ==
    IF ~creds
    THEN [id |-> "None", raised |-> FALSE, sdk_calls |-> 0, fallback_calls |-> 0,
          created |-> <<>>]
    ELSE IF fallback_ok
    THEN [id |-> "rec", raised |-> FALSE, sdk_calls |-> 1, fallback_calls |-> 1,
          created |-> IF sdk_ok
                      THEN <<AirtableRecord(site, m, urls), AirtableRecord(site, m, urls)>>
                      ELSE <<AirtableRecord(site, m, urls)>>]
    ELSE [id |-> "None", raised |-> FALSE, sdk_calls |-> 1, fallback_calls |-> 1,
          created |-> IF sdk_ok THEN <<AirtableRecord(site, m, urls)>> ELSE <<>>]

\* save_to_airtable (lines 151-212): without the Airtable settings None is
\* returned at once (lines 153-155); else table.create (line 180) creates
\* the record; when it raises, requests.post (line 204) is the fallback;
\* when that raises as well the outer except returns None (lines 210-212).
\* created holds the records the call created in the table.
save_to_airtable(creds, sdk_ok, fallback_ok, site, m, urls) ==
    IF ~creds
    THEN [id |-> "None", raised |-> FALSE, sdk_calls |-> 0, fallback_calls |-> 0,
          created |-> <<>>]
    ELSE IF sdk_ok
    THEN [id |-> "rec", raised |-> FALSE, sdk_calls |-> 1, fallback_calls |-> 0,
          created |-> <<AirtableRecord(site, m, urls)>>]
    ELSE IF fallback_ok
    THEN [id |-> "rec", raised |-> FALSE, sdk_calls |-> 1, fallback_calls |-> 1,
          created |-> <<AirtableRecord(site, m, urls)>>]
    ELSE [id |-> "None", raised |-> FALSE, sdk_calls |-> 1, fallback_calls |-> 1,
          created |-> <<>>]

\* No upload or save function has been called.
NoCall ==
    [function |-> "none", configured |-> FALSE, sdk_ok |-> FALSE, fallback_ok |-> FALSE,
     sdk_calls |-> 0, fallback_calls |-> 0, returned |-> "None", raised |-> FALSE,
     created |-> <<>>]

(***************************************************************************)
(* block_chat_requests (lines 444-451). A URL is the sequence of its       *)
(* fragments; a keyword occurs in the URL when it is one of the fragments  *)
(* of the lower-cased URL.                                                 *)
(***************************************************************************)
chat_keywords ==
    {"genesys", "liveperson", "salesforceliveagent", "adobe-privacy", "chatbot",
     "proactive-chat"}

UrlFragments ==
    {"lg", "chat", "Genesys", "liveperson", "salesforceliveagent", "adobe-privacy",
     "CHATBOT", "proactive-chat"}

MaxUrlFragments == 2

RequestUrls == SeqsUpTo(UrlFragments, MaxUrlFragments) \ {<<>>}

\* Variant of LowerFragment that compares the URL as it was requested.
LowerFragmentIdentity(f) == f

\* str.lower() on one fragment (line 445).
LowerFragment(f) ==
    CASE f = "Genesys" -> "genesys"
      [] f = "CHATBOT" -> "chatbot"
      [] OTHER -> f

\* url_str = route.request.url.lower() (line 445).
LowerUrl(url) == [k \in DOMAIN url |-> LowerFragment(url[k])]

\* any(key in url_str for key in chat_keywords) (line 448).
HasChatKeyword(url_str) == \E k \in DOMAIN url_str : url_str[k] \in chat_keywords

\* The decision of block_chat_requests for one route (lines 445-451): the
\* number of route.abort() and of route.continue_() calls it makes.
block_chat_requests(url) ==
    IF HasChatKeyword(LowerUrl(url))
    THEN [url |-> url, aborts |-> 1, continues |-> 0]
    ELSE [url |-> url, aborts |-> 0, continues |-> 1]

NoRequest == [url |-> <<>>, aborts |-> 0, continues |-> 0]

(***************************************************************************)
(* apply_clean_styles (lines 217-265). The document is what the script     *)
(* touches: the .c-notification-banner elements, the <style> elements the  *)
(* script has appended to the head, the inline declarations of the         *)
(* elements of hideSelectors and opacitySelectors, and the videos playing. *)
(***************************************************************************)
hideSelectors ==
    {".c-header", ".navigation", ".iw_viewport-wrapper > header",
     ".al-quick-btn__quickbtn", ".al-quick-btn__topbtn"}

opacitySelectors ==
    {".cmp-carousel__indicators", ".cmp-carousel__actions", ".c-carousel-controls"}

Videos == {"video1", "video2"}

\* Appended <style> elements are counted up to this number.
MaxStyleElements == 2

\* Variant of apply_clean_styles whose last statement toggles the videos.
apply_clean_styles_toggle(d) ==
    [ notification_banners |-> 0,
      style_elements |-> IF d.style_elements < MaxStyleElements
                         THEN d.style_elements + 1 ELSE MaxStyleElements,
      inline_hidden |-> hideSelectors,
      inline_transparent |-> opacitySelectors,
      playing |-> Videos \ d.playing ]

\* The document after the script of lines 219-265 has run on document d:
\* the notification banners are removed (line 220), one more <style>
\* element is appended (lines 221-251), every element of hideSelectors gets
\* display: none (lines 253-256), every element of opacitySelectors gets
\* opacity: 0 (lines 258-261), every video is paused (line 264).
apply_clean_styles(d) ==
    [ notification_banners |-> 0,
      style_elements |-> IF d.style_elements < MaxStyleElements
                         THEN d.style_elements + 1 ELSE MaxStyleElements,
      inline_hidden |-> hideSelectors,
      inline_transparent |-> opacitySelectors,
      playing |-> {} ]

\* What the page shows: the rules of the appended stylesheet apply as soon
\* as one copy of it is in the head, however many copies there are.
VisualState(d) ==
    [ notification_banners |-> d.notification_banners,
      stylesheet_rules |-> d.style_elements > 0,
      hidden |-> d.inline_hidden,
      transparent |-> d.inline_transparent,
      paused |-> Videos \ d.playing ]

\* The documents a page can hold before the script has run on it.
Doms ==
    [ notification_banners : 0..1,
      style_elements : {0},
      inline_hidden : SUBSET hideSelectors,
      inline_transparent : SUBSET opacitySelectors,
      playing : SUBSET Videos ]

\* The document of a freshly loaded target page.
LoadedDom ==
    [ notification_banners |-> 1, style_elements |-> 0, inline_hidden |-> {},
      inline_transparent |-> {}, playing |-> {"video1"} ]

\* The sites of a batch, in queue order (capture_queue, lines 741-749).
Sites == <<"uk", "fr", "de", "it">>

\* Sessions of a batch queue.
MaxQueue == 2

\* Indicators of a carousel in the specifications that run uploads or batches.
MaxBatchSlides == 2

\* The variables a session leaves alone, by the role they play.
envVars == <<country_code, upload_to_cloud, credentials, sig_pool, clock>>
probeVars == <<last_request, applied, last_call>>
mainVars == <<capture_queue, qi, stop_requested, mpc, history, airtable_records>>

NoPath == <<>>

\* The locals of capture_hero_banners when the call begins (line 416).
FreshSession ==
    /\ hero = 0
    /\ fallback_ran = FALSE
    /\ browser = "none"
    /\ num_slides = -1
    /\ i = 0
    /\ attempt = 0
    /\ current_sig = "null"
    /\ is_correct_index = FALSE
    /\ captured_signatures = <<>>
    /\ results = <<>>
    /\ navTarget = 0
    /\ sanitized = FALSE
    /\ failed_verifies = 0
    /\ outcome = "running"
    /\ session_path = NoPath
    /\ active_slide_selector = "none"
    /\ element = "None"
    /\ route_installed = FALSE

\* Nothing of main's batch loop and nothing observed yet: the state of the
\* specifications that call capture_hero_banners on its own.
NoBatch ==
    /\ capture_queue = <<>>
    /\ qi = 0
    /\ stop_requested = FALSE
    /\ mpc = "direct"
    /\ history = <<>>
    /\ airtable_records = <<>>
    /\ last_request = NoRequest
    /\ applied = 0
    /\ last_call = NoCall
    /\ log = {}
    /\ open_browsers = 0

Init ==
    /\ page \in SessionPages
    /\ mode \in {"desktop"}
    /\ pc = "start"
    /\ FreshSession
    /\ NoBatch
    /\ country_code = "xx"
    /\ upload_to_cloud = FALSE
    /\ credentials = TRUE
    /\ sig_pool = {"img1|A", "img2|B"}
    /\ clock = "20240101_090000"
    /\ dom = LoadedDom

\* Lines 424-438: the session directory is named and created, then
\* browser = p.chromium.launch(...).
Launch ==
    /\ pc = "start"
    /\ session_path' = SessionFolderName(country_code, mode, clock)
    /\ browser' = "open"
    /\ open_browsers' = open_browsers + 1
    /\ pc' = "launched"
    /\ UNCHANGED <<page, mode, hero, fallback_ran, num_slides, i, attempt, current_sig,
                   is_correct_index, captured_signatures, results, navTarget,
                   sanitized, failed_verifies, outcome>>
    /\ UNCHANGED <<log, active_slide_selector, route_installed, dom>>
    /\ UNCHANGED <<envVars, probeVars, mainVars, element>>

\* context = browser.new_context(...); page = context.new_page() (lines 441-442).
NewContext ==
    /\ pc = "launched"
    /\ pc' = "context"
    /\ UNCHANGED <<page, mode, hero, fallback_ran, browser, num_slides, i, attempt,
                   current_sig, is_correct_index, captured_signatures, results,
                   navTarget, sanitized, failed_verifies, outcome>>
    /\ UNCHANGED <<session_path, log, active_slide_selector, route_installed, dom,
                   open_browsers>>
    /\ UNCHANGED <<envVars, probeVars, mainVars, element>>

\* page.route("**/*", block_chat_requests) (line 453).
InstallRoute ==
    /\ pc = "context"
    /\ route_installed' = TRUE
    /\ pc' = "routed"
    /\ UNCHANGED <<page, mode, hero, fallback_ran, browser, num_slides, i, attempt,
                   current_sig, is_correct_index, captured_signatures, results,
                   navTarget, sanitized, failed_verifies, outcome>>
    /\ UNCHANGED <<session_path, log, active_slide_selector, dom, open_browsers>>
    /\ UNCHANGED <<envVars, probeVars, mainVars, element>>

\* A call of lines 426-453 raises: these lines are outside the try statement
\* of line 455, so the exception leaves capture_hero_banners and neither the
\* except clause nor the finally clause runs.
SetupRaises ==
    /\ pc \in {"start", "launched", "context"}
    /\ pc' = "raised"
    /\ outcome' = "raised"
    /\ UNCHANGED <<page, mode, hero, fallback_ran, browser, num_slides, i, attempt,
                   current_sig, is_correct_index, captured_signatures, results,
                   navTarget, sanitized, failed_verifies>>
    /\ UNCHANGED <<session_path, log, active_slide_selector, route_installed, dom,
                   open_browsers>>
    /\ UNCHANGED <<envVars, probeVars, mainVars, element>>

\* page.goto(url, wait_until="domcontentloaded", timeout=90000) (lines 455-458).
Goto ==
    /\ pc = "routed"
    /\ pc' = "loaded"
    /\ UNCHANGED <<page, mode, hero, fallback_ran, browser, num_slides, i, attempt,
                   current_sig, is_correct_index, captured_signatures, results,
                   navTarget, sanitized, failed_verifies, outcome>>
    /\ UNCHANGED <<session_path, log, active_slide_selector, route_installed, dom,
                   open_browsers>>
    /\ UNCHANGED <<envVars, probeVars, mainVars, element>>

\* Lines 460-468: the cookie button is clicked when visible; whatever
\* happens inside, the bare except swallows it.
AcceptCookies ==
    /\ pc = "loaded"
    /\ pc' = "cookies"
    /\ UNCHANGED <<page, mode, hero, fallback_ran, browser, num_slides, i, attempt,
                   current_sig, is_correct_index, captured_signatures, results,
                   navTarget, sanitized, failed_verifies, outcome>>
    /\ UNCHANGED <<session_path, log, active_slide_selector, route_installed, dom,
                   open_browsers>>
    /\ UNCHANGED <<envVars, probeVars, mainVars, element>>

\* page.wait_for_selector(..., timeout=30000) (line 470) finds a carousel.
WaitCarousel ==
    /\ pc = "cookies"
    /\ WaitSelectorPresent(page)
    /\ pc' = "ready"
    /\ UNCHANGED <<page, mode, hero, fallback_ran, browser, num_slides, i, attempt,
                   current_sig, is_correct_index, captured_signatures, results,
                   navTarget, sanitized, failed_verifies, outcome>>
    /\ UNCHANGED <<session_path, log, active_slide_selector, route_installed, dom,
                   open_browsers>>
    /\ UNCHANGED <<envVars, probeVars, mainVars, element>>

\* Variant of Locate that returns without logging when no carousel is found.
LocateSilent ==
    /\ pc = "ready"
    /\ LET found == find_hero_carousel(page, ViewportWidth(mode))
       IN  /\ hero' = found.carousel
           /\ fallback_ran' = found.fallback
           /\ pc' = IF found.carousel = 0 THEN "finally" ELSE "located"
           /\ outcome' = IF found.carousel = 0 THEN "notfound" ELSE outcome
           /\ log' = log
    /\ UNCHANGED <<page, mode, browser, num_slides, i, attempt, current_sig,
                   is_correct_index, captured_signatures, results, navTarget,
                   sanitized, failed_verifies>>
    /\ UNCHANGED <<session_path, active_slide_selector, route_installed, dom,
                   open_browsers>>
    /\ UNCHANGED <<envVars, probeVars, mainVars, element>>

\* hero_carousel = find_hero_carousel(page, log_callback); without a
\* carousel the failure is logged and the function returns (lines 472-476).
Locate ==
    /\ pc = "ready"
    /\ LET found == find_hero_carousel(page, ViewportWidth(mode))
       IN  /\ hero' = found.carousel
           /\ fallback_ran' = found.fallback
           /\ pc' = IF found.carousel = 0 THEN "finally" ELSE "located"
           /\ outcome' = IF found.carousel = 0 THEN "notfound" ELSE outcome
           /\ log' = IF found.carousel = 0 THEN log \cup {"not_found"} ELSE log
    /\ UNCHANGED <<page, mode, browser, num_slides, i, attempt, current_sig,
                   is_correct_index, captured_signatures, results, navTarget,
                   sanitized, failed_verifies>>
    /\ UNCHANGED <<session_path, active_slide_selector, route_installed, dom,
                   open_browsers>>
    /\ UNCHANGED <<envVars, probeVars, mainVars, element>>

\* Variant of QueryIndicators for a signature list that is created once and
\* not emptied by the session.
QueryIndicatorsKeepsSignatures ==
    /\ pc = "located"
    /\ \E n \in 0..MaxSlides :
         /\ page' = [page EXCEPT ![hero].nInd = n]
         /\ num_slides' = n
    /\ i' = 0
    /\ pc' = "loop"
    /\ UNCHANGED <<mode, hero, fallback_ran, browser, attempt, current_sig,
                   is_correct_index, results, navTarget, sanitized,
                   failed_verifies, outcome, captured_signatures>>
    /\ UNCHANGED <<session_path, log, active_slide_selector, route_installed, dom,
                   open_browsers>>
    /\ UNCHANGED <<envVars, probeVars, mainVars, element>>

\* Lines 478-483: the indicators of the located carousel are queried again on
\* the live page; n is the number the page holds at that moment. The list
\* of captured signatures is created empty (line 483).
QueryIndicators ==
    /\ pc = "located"
    /\ \E n \in 0..MaxSlides :
         /\ page' = [page EXCEPT ![hero].nInd = n]
         /\ num_slides' = n
    /\ captured_signatures' = <<>>
    /\ i' = 0
    /\ pc' = "loop"
    /\ UNCHANGED <<mode, hero, fallback_ran, browser, attempt, current_sig,
                   is_correct_index, results, navTarget, sanitized,
                   failed_verifies, outcome>>
    /\ UNCHANGED <<session_path, log, active_slide_selector, route_installed, dom,
                   open_browsers>>
    /\ UNCHANGED <<envVars, probeVars, mainVars, element>>

\* Lines 485-487: the next frame starts.
StartFrame ==
    /\ pc = "loop"
    /\ InRange(i, num_slides)
    /\ attempt' = 0
    /\ failed_verifies' = 0
    /\ pc' = "navigate"
    /\ UNCHANGED <<page, mode, hero, fallback_ran, browser, num_slides, i, current_sig,
                   is_correct_index, captured_signatures, results, navTarget,
                   sanitized, outcome>>
    /\ UNCHANGED <<session_path, log, active_slide_selector, route_installed, dom,
                   open_browsers>>
    /\ UNCHANGED <<envVars, probeVars, mainVars, element>>

\* The for loop of line 485 is exhausted: control reaches the finally clause.
FinishLoop ==
    /\ pc = "loop"
    /\ ~InRange(i, num_slides)
    /\ outcome' = "completed"
    /\ pc' = "finally"
    /\ UNCHANGED <<page, mode, hero, fallback_ran, browser, num_slides, i, attempt,
                   current_sig, is_correct_index, captured_signatures, results,
                   navTarget, sanitized, failed_verifies>>
    /\ UNCHANGED <<session_path, log, active_slide_selector, route_installed, dom,
                   open_browsers>>
    /\ UNCHANGED <<envVars, probeVars, mainVars, element>>

\* Lines 491-514: the force-navigate script and the settle wait.
ForceNavigate ==
    /\ pc = "navigate"
    /\ navTarget' = NavTarget(page, sanitized, i)
    /\ pc' = "sanitize"
    /\ UNCHANGED <<page, mode, hero, fallback_ran, browser, num_slides, i, attempt,
                   current_sig, is_correct_index, captured_signatures, results,
                   sanitized, failed_verifies, outcome>>
    /\ UNCHANGED <<session_path, log, active_slide_selector, route_installed, dom,
                   open_browsers>>
    /\ UNCHANGED <<envVars, probeVars, mainVars, element>>

\* apply_clean_styles(page) (lines 516-517, 217-265).
Sanitize ==
    /\ pc = "sanitize"
    /\ dom' = apply_clean_styles(dom)
    /\ sanitized' = TRUE
    /\ pc' = "verify"
    /\ UNCHANGED <<page, mode, hero, fallback_ran, browser, num_slides, i, attempt,
                   current_sig, is_correct_index, captured_signatures, results,
                   navTarget, failed_verifies, outcome>>
    /\ UNCHANGED <<session_path, log, active_slide_selector, route_installed,
                   open_browsers>>
    /\ UNCHANGED <<envVars, probeVars, mainVars, element>>

\* Variant of Verify in which the timeout of the wait for the active slide
\* propagates to the except clause of line 602.
VerifyWaitRaises ==
    /\ pc = "verify"
    /\ \E sig \in sig_pool \cup {"null"}, match \in BOOLEAN :
         /\ sig = "null" => ~match
         /\ failed_verifies' =
               IF sig \in Range(captured_signatures) \/ ~match
               THEN failed_verifies + 1 ELSE failed_verifies
         /\ IF RetryOnDuplicate(sig, captured_signatures, attempt)
               \/ RetryOnMismatch(match, attempt)
            THEN /\ attempt' = attempt + 1
                 /\ current_sig' = "null"
                 /\ is_correct_index' = FALSE
                 /\ active_slide_selector' = "none"
                 /\ element' = "None"
                 /\ pc' = "navigate"
                 /\ UNCHANGED <<outcome, log>>
            ELSE \E found \in BOOLEAN, resolved \in BOOLEAN :
                 IF found
                 THEN /\ attempt' = attempt
                      /\ current_sig' = sig
                      /\ is_correct_index' = match
                      /\ active_slide_selector' = "indexed"
                      /\ element' = IF resolved THEN "handle" ELSE "None"
                      /\ pc' = "capture"
                      /\ UNCHANGED <<outcome, log>>
                 ELSE /\ attempt' = 0
                      /\ current_sig' = "null"
                      /\ is_correct_index' = FALSE
                      /\ active_slide_selector' = "generic"
                      /\ element' = "None"
                      /\ pc' = "finally"
                      /\ outcome' = "error"
                      /\ log' = log \cup {"error"}
    /\ UNCHANGED <<page, mode, hero, fallback_ran, browser, num_slides, i,
                   captured_signatures, results, navTarget, sanitized>>
    /\ UNCHANGED <<session_path, route_installed, dom, open_browsers>>
    /\ UNCHANGED <<envVars, probeVars, mainVars>>

\* Lines 520-574: the signature script is evaluated and the two checks
\* decide between a retry and the capture; before the capture the active
\* slide of frame i is waited for, 2000 ms (lines 555-557): when that wait
\* raises (a timeout or any other error) the bare except of lines 558-559
\* replaces the indexed selector by the generic one and the attempt goes on.
\* Then the banner selectors are queried in order (lines 565-574): element
\* is the first match, None when the three of them match nothing.
\* current_sig and is_correct_index are assigned anew by every attempt
\* before they are read (lines 541-542), so the model holds them only from
\* the verify to the capture of one attempt.
Verify ==
    /\ pc = "verify"
    /\ \E sig \in sig_pool \cup {"null"}, match \in BOOLEAN :
         /\ sig = "null" => ~match
         /\ failed_verifies' =
               IF sig \in Range(captured_signatures) \/ ~match
               THEN failed_verifies + 1 ELSE failed_verifies
         /\ IF RetryOnDuplicate(sig, captured_signatures, attempt)
               \/ RetryOnMismatch(match, attempt)
            THEN /\ attempt' = attempt + 1
                 /\ current_sig' = "null"
                 /\ is_correct_index' = FALSE
                 /\ active_slide_selector' = "none"
                 /\ element' = "None"
                 /\ pc' = "navigate"
                 /\ UNCHANGED <<outcome, log>>
            ELSE /\ attempt' = attempt
                 /\ current_sig' = sig
                 /\ is_correct_index' = match
                 /\ \E found \in BOOLEAN :
                      active_slide_selector' = IF found THEN "indexed" ELSE "generic"
                 /\ \E resolved \in BOOLEAN :
                      element' = IF resolved THEN "handle" ELSE "None"
                 /\ pc' = "capture"
                 /\ UNCHANGED <<outcome, log>>
    /\ UNCHANGED <<page, mode, hero, fallback_ran, browser, num_slides, i,
                   captured_signatures, results, navTarget, sanitized>>
    /\ UNCHANGED <<session_path, route_installed, dom, open_browsers>>
    /\ UNCHANGED <<envVars, probeVars, mainVars>>

\* What a transport of upload_to_cloudinary can answer; the transports are
\* not called when upload_to_cloud is not set (line 590).
UploadAnswers(enabled) == IF enabled THEN BOOLEAN ELSE {FALSE}

\* Variant of CaptureUnresolved in which the missing element raises, as a
\* call on None would.
CaptureUnresolvedRaises ==
    /\ UNCHANGED <<captured_signatures, results, i>>
    /\ outcome' = "error"
    /\ log' = log \cup {"error"}
    /\ attempt' = 0
    /\ failed_verifies' = 0
    /\ pc' = "finally"

\* Variant of CaptureUnresolved that records the signature of the attempt.
CaptureUnresolvedRecords ==
    /\ captured_signatures' = Append(captured_signatures, current_sig)
    /\ UNCHANGED <<results, outcome>>
    /\ IF HasNextAttempt(attempt)
       THEN /\ attempt' = attempt + 1
            /\ i' = i
            /\ failed_verifies' = failed_verifies
            /\ pc' = "navigate"
            /\ log' = log
       ELSE /\ attempt' = 0
            /\ i' = i + 1
            /\ failed_verifies' = 0
            /\ pc' = "loop"
            /\ log' = log \cup {"slide_failed"}

\* Lines 576, 599-600 with element None: the body of "if element" is
\* skipped; the next attempt follows, or, after the last attempt, the frame
\* is given up and logged (success is still False).
CaptureUnresolved ==
    /\ UNCHANGED <<captured_signatures, results, outcome>>
    /\ IF HasNextAttempt(attempt)
       THEN /\ attempt' = attempt + 1
            /\ i' = i
            /\ failed_verifies' = failed_verifies
            /\ pc' = "navigate"
            /\ log' = log
       ELSE /\ attempt' = 0
            /\ i' = i + 1
            /\ failed_verifies' = 0
            /\ pc' = "loop"
            /\ log' = log \cup {"slide_failed"}

\* Lines 576-600: with an element the screenshot is taken, the signature
\* recorded, the file uploaded when upload_to_cloud is set, and the result
\* yielded, and the attempt loop is left; without one CaptureUnresolved
\* follows. An exception leaving upload_to_cloudinary would reach the
\* except clause of line 602. The locals of the attempt loop (attempt, the
\* verify counter, the selector, the element) are rebound by the next
\* attempt (lines 487-490, 555, 565) and are cleared here when the attempt
\* ends.
Capture ==
    /\ pc = "capture"
    /\ \E sdk_ok \in UploadAnswers(upload_to_cloud),
          fallback_ok \in UploadAnswers(upload_to_cloud) :
         LET slide_num == SlideNum(i)
             filepath == FilePath(session_path, FileName(country_code, mode, slide_num))
             upload == IF upload_to_cloud
                       THEN upload_to_cloudinary(credentials, sdk_ok, fallback_ok)
                       ELSE [url |-> "None", transport |-> "none", raised |-> FALSE,
                             sdk_calls |-> 0, fallback_calls |-> 0]
         IN  IF element # "None" /\ upload.raised
             THEN /\ captured_signatures' = Append(captured_signatures, current_sig)
                  /\ outcome' = "error"
                  /\ log' = log \cup {"error"}
                  /\ attempt' = 0
                  /\ failed_verifies' = 0
                  /\ pc' = "finally"
                  /\ UNCHANGED <<results, i>>
             ELSE IF element # "None"
             THEN /\ captured_signatures' = Append(captured_signatures, current_sig)
                  /\ results' = Append(results,
                        [slide_num |-> slide_num, sig |-> current_sig,
                         filepath |-> filepath, cloudinary_url |-> upload.url])
                  /\ i' = i + 1
                  /\ attempt' = 0
                  /\ failed_verifies' = 0
                  /\ pc' = "loop"
                  /\ UNCHANGED <<outcome, log>>
             ELSE CaptureUnresolved
    /\ current_sig' = "null"
    /\ is_correct_index' = FALSE
    /\ active_slide_selector' = "none"
    /\ element' = "None"
    /\ UNCHANGED <<page, mode, hero, fallback_ran, browser, num_slides,
                   navTarget, sanitized>>
    /\ UNCHANGED <<session_path, route_installed, dom, open_browsers>>
    /\ UNCHANGED <<envVars, probeVars, mainVars>>

\* Variant of StepRaises in which the exception is not caught by the except
\* clause of line 602 and leaves capture_hero_banners.
StepRaisesEscapes ==
    /\ pc \in {"routed", "cookies", "located", "navigate", "sanitize", "verify", "capture"}
    /\ pc = "capture" => element # "None"
    /\ outcome' = "raised"
    /\ pc' = "raised"
    /\ attempt' = 0
    /\ failed_verifies' = 0
    /\ current_sig' = "null"
    /\ is_correct_index' = FALSE
    /\ active_slide_selector' = "none"
    /\ element' = "None"
    /\ UNCHANGED <<page, mode, hero, fallback_ran, browser, num_slides, i,
                   captured_signatures, results, navTarget, sanitized>>
    /\ UNCHANGED <<session_path, log, route_installed, dom, open_browsers>>
    /\ UNCHANGED <<envVars, probeVars, mainVars>>

\* A page call inside the try statement raises (a timeout of goto or of the
\* carousel wait, a failed evaluate, query or screenshot): the except clause
\* of lines 602-603 logs it and control reaches the finally clause. With
\* element None no page call is left in the attempt (line 576), so nothing
\* raises there. The locals of the attempt loop are not read again.
StepRaises ==
    /\ pc \in {"routed", "cookies", "located", "navigate", "sanitize", "verify", "capture"}
    /\ pc = "capture" => element # "None"
    /\ outcome' = "error"
    /\ log' = log \cup {"error"}
    /\ pc' = "finally"
    /\ attempt' = 0
    /\ failed_verifies' = 0
    /\ current_sig' = "null"
    /\ is_correct_index' = FALSE
    /\ active_slide_selector' = "none"
    /\ element' = "None"
    /\ UNCHANGED <<page, mode, hero, fallback_ran, browser, num_slides, i,
                   captured_signatures, results, navTarget, sanitized>>
    /\ UNCHANGED <<session_path, route_installed, dom, open_browsers>>
    /\ UNCHANGED <<envVars, probeVars, mainVars>>

\* Variant of CloseBrowser that returns without closing the browser.
CloseBrowserSkipped ==
    /\ pc = "finally"
    /\ pc' = "done"
    /\ UNCHANGED <<page, mode, hero, fallback_ran, browser, num_slides, i, attempt,
                   current_sig, is_correct_index, captured_signatures, results,
                   navTarget, sanitized, failed_verifies, outcome>>
    /\ UNCHANGED <<session_path, log, active_slide_selector, route_installed, dom,
                   open_browsers>>
    /\ UNCHANGED <<envVars, probeVars, mainVars, element>>

\* finally: browser.close() (lines 604-606).
CloseBrowser ==
    /\ pc = "finally"
    /\ browser' = "closed"
    /\ open_browsers' = open_browsers - 1
    /\ pc' = "done"
    /\ UNCHANGED <<page, mode, hero, fallback_ran, num_slides, i, attempt, current_sig,
                   is_correct_index, captured_signatures, results, navTarget,
                   sanitized, failed_verifies, outcome>>
    /\ UNCHANGED <<session_path, log, active_slide_selector, route_installed, dom>>
    /\ UNCHANGED <<envVars, probeVars, mainVars, element>>

\* A request of the page reaches the route of line 453: requests are issued
\* from the start of goto (line 458) on; with the handler registered the
\* request gets the decision of block_chat_requests, without it none.
RouteRequest ==
    /\ pc \in {"routed", "loaded", "cookies"}
    /\ \E url \in RequestUrls :
         last_request' = IF route_installed THEN block_chat_requests(url)
                         ELSE [url |-> url, aborts |-> 0, continues |-> 0]
    /\ UNCHANGED <<page, mode, pc, hero, fallback_ran, browser, num_slides, i, attempt,
                   current_sig, is_correct_index, captured_signatures, results,
                   navTarget, sanitized, failed_verifies, outcome>>
    /\ UNCHANGED <<session_path, log, active_slide_selector, route_installed, dom,
                   open_browsers, applied, last_call>>
    /\ UNCHANGED <<envVars, mainVars, element>>

\* apply_clean_styles(page_obj) called on a page (lines 217-265); applied
\* counts the calls.
ApplyCleanStyles ==
    /\ applied <= MaxStyleElements
    /\ dom' = apply_clean_styles(dom)
    /\ applied' = applied + 1
    /\ UNCHANGED <<page, mode, pc, hero, fallback_ran, browser, num_slides, i, attempt,
                   current_sig, is_correct_index, captured_signatures, results,
                   navTarget, sanitized, failed_verifies, outcome>>
    /\ UNCHANGED <<session_path, log, active_slide_selector, route_installed,
                   open_browsers, last_request, last_call>>
    /\ UNCHANGED <<envVars, mainVars, element>>

\* upload_to_cloudinary(file_path, country_code, mode, slide_num) called on
\* a captured file (lines 590-593); last_call holds whether the settings
\* were present, how the two transports answered, and what the call did.
UploadCall ==
    /\ \E sdk_ok \in BOOLEAN, fallback_ok \in BOOLEAN :
         LET upload == upload_to_cloudinary(credentials, sdk_ok, fallback_ok)
         IN  last_call' = [function |-> "upload_to_cloudinary",
                           configured |-> credentials,
                           sdk_ok |-> sdk_ok, fallback_ok |-> fallback_ok,
                           sdk_calls |-> upload.sdk_calls,
                           fallback_calls |-> upload.fallback_calls,
                           returned |-> upload.url, raised |-> upload.raised,
                           created |-> <<>>]
    /\ UNCHANGED <<page, mode, pc, hero, fallback_ran, browser, num_slides, i, attempt,
                   current_sig, is_correct_index, captured_signatures, results,
                   navTarget, sanitized, failed_verifies, outcome>>
    /\ UNCHANGED <<session_path, log, active_slide_selector, route_installed, dom,
                   open_browsers, last_request, applied>>
    /\ UNCHANGED <<envVars, mainVars, element>>

\* The lists of hosted URLs main can pass to save_to_airtable: each URL is
\* named by the frame number its public_id carries (line 105); the list
\* is never empty (lines 776, 807).
UrlLists == SeqsUpTo(1..MaxBatchSlides, MaxBatchSlides) \ {<<>>}

\* save_to_airtable(country_code, mode, urls, full_country_name) called on
\* a list of hosted URLs (lines 776-778, 807-808).
SaveCall ==
    /\ \E sdk_ok \in BOOLEAN, fallback_ok \in BOOLEAN, urls \in UrlLists :
         LET saved == save_to_airtable(credentials, sdk_ok, fallback_ok,
                                       country_code, mode, urls)
         IN  last_call' = [function |-> "save_to_airtable",
                           configured |-> credentials,
                           sdk_ok |-> sdk_ok, fallback_ok |-> fallback_ok,
                           sdk_calls |-> saved.sdk_calls,
                           fallback_calls |-> saved.fallback_calls,
                           returned |-> saved.id, raised |-> saved.raised,
                           created |-> saved.created]
    /\ UNCHANGED <<page, mode, pc, hero, fallback_ran, browser, num_slides, i, attempt,
                   current_sig, is_correct_index, captured_signatures, results,
                   navTarget, sanitized, failed_verifies, outcome>>
    /\ UNCHANGED <<session_path, log, active_slide_selector, route_installed, dom,
                   open_browsers, last_request, applied>>
    /\ UNCHANGED <<envVars, mainVars, element>>

(***************************************************************************)
(* main: the batch loop (lines 790-818). qi is the 1-based position in     *)
(* capture_queue of the iteration that runs or comes next; history holds   *)
(* how each finished session ended.                                        *)
(***************************************************************************)
sessionVars ==
    <<page, mode, pc, hero, fallback_ran, browser, num_slides, i, attempt,
      current_sig, is_correct_index, captured_signatures, results, navTarget,
      sanitized, failed_verifies, outcome, session_path, active_slide_selector,
      element, route_installed, dom>>

\* Variant of StopRequestedAt that never sees the flag.
StopRequestedIgnored(flag) == FALSE

\* if st.session_state.stop_requested (line 792).
StopRequestedAt(flag) == flag

\* Lines 791-794: the iteration for the next site finds the flag set, logs
\* it and breaks out of the loop.
BatchStop ==
    /\ mpc = "check"
    /\ qi <= Len(capture_queue)
    /\ StopRequestedAt(stop_requested)
    /\ mpc' = "stopped"
    /\ log' = log \cup {"stopped"}
    /\ UNCHANGED <<sessionVars, envVars, probeVars, open_browsers,
                   capture_queue, qi, stop_requested, history, airtable_records>>

\* Lines 791-802: the iteration for the next site finds the flag clear and
\* calls capture_hero_banners(url, c_code, mode, ...) on the site's page.
\* The locals of the new call are unbound until their assignments run;
\* captured_signatures is left as it is here, so that nothing but the
\* assignment of line 483 empties it.
StartSession ==
    /\ mpc = "check"
    /\ qi <= Len(capture_queue)
    /\ ~StopRequestedAt(stop_requested)
    /\ mpc' = "session"
    /\ country_code' = capture_queue[qi]
    /\ page' \in SessionPages
    /\ clock' \in Timestamps
    /\ dom' = LoadedDom
    /\ pc' = "start"
    /\ hero' = 0
    /\ fallback_ran' = FALSE
    /\ browser' = "none"
    /\ num_slides' = -1
    /\ i' = 0
    /\ attempt' = 0
    /\ current_sig' = "null"
    /\ is_correct_index' = FALSE
    /\ results' = <<>>
    /\ navTarget' = 0
    /\ sanitized' = FALSE
    /\ failed_verifies' = 0
    /\ outcome' = "running"
    /\ session_path' = NoPath
    /\ active_slide_selector' = "none"
    /\ element' = "None"
    /\ route_installed' = FALSE
    /\ UNCHANGED <<mode, upload_to_cloud, credentials, sig_pool, log, open_browsers,
                   probeVars, capture_queue, qi, stop_requested, history,
                   airtable_records, captured_signatures>>

\* How a finished session ended: its outcome, whether it had located a
\* carousel by then, and the signatures of the frames it emitted.
SessionOutcome ==
    [outcome |-> outcome, located |-> hero # 0,
     signatures |-> { results[k].sig : k \in DOMAIN results }]

\* Variant of HostedUrls that keeps the URL of every result, None included.
RECURSIVE HostedUrlsUnfiltered(_)
HostedUrlsUnfiltered(res) ==
    IF res = <<>> THEN <<>>
    ELSE <<Head(res).slide_num>> \o HostedUrlsUnfiltered(Tail(res))

\* cloudinary_urls (lines 800-805): the URLs of the results that have one,
\* in the order the results were yielded; each URL is named by the frame
\* number its public_id carries (line 105).
RECURSIVE HostedUrls(_)
HostedUrls(res) ==
    IF res = <<>> THEN <<>>
    ELSE (IF Head(res).cloudinary_url # "None" THEN <<Head(res).slide_num>> ELSE <<>>)
         \o HostedUrls(Tail(res))

\* Lines 802-814: the generator is exhausted; with upload enabled and a
\* hosted URL in the list save_to_airtable is called once with the list
\* (lines 807-808), its settings present or not and its transports
\* answering or failing; then the iteration ends and the loop goes to the
\* next entry of the queue.
EndSession ==
    /\ mpc = "session"
    /\ pc = "done"
    /\ LET cloudinary_urls == HostedUrls(results)
       IN  IF upload_to_cloud /\ cloudinary_urls # <<>>
           THEN \E configured \in BOOLEAN, sdk_ok \in BOOLEAN, fallback_ok \in BOOLEAN :
                  airtable_records' =
                      airtable_records
                      \o save_to_airtable(configured, sdk_ok, fallback_ok,
                                          country_code, mode, cloudinary_urls).created
           ELSE airtable_records' = airtable_records
    /\ history' = Append(history, SessionOutcome)
    /\ qi' = qi + 1
    /\ mpc' = "check"
    /\ UNCHANGED <<sessionVars, envVars, probeVars, log, open_browsers,
                   capture_queue, stop_requested>>

\* An exception that left capture_hero_banners leaves the for statement of
\* line 802 and main: no further iteration runs.
SessionEscapes ==
    /\ mpc = "session"
    /\ pc = "raised"
    /\ mpc' = "crashed"
    /\ UNCHANGED <<sessionVars, envVars, probeVars, log, open_browsers,
                   capture_queue, qi, stop_requested, history, airtable_records>>

\* Lines 816-818: the queue is exhausted; completion is logged unless the
\* flag is set.
BatchComplete ==
    /\ mpc = "check"
    /\ qi > Len(capture_queue)
    /\ mpc' = "finished"
    /\ log' = IF stop_requested THEN log ELSE log \cup {"complete"}
    /\ UNCHANGED <<sessionVars, envVars, probeVars, open_browsers,
                   capture_queue, qi, stop_requested, history, airtable_records>>

\* Lines 717-719: the Stop Capture button sets the flag while the batch runs.
StopClicked ==
    /\ mpc \in {"check", "session"}
    /\ ~stop_requested
    /\ stop_requested' = TRUE
    /\ UNCHANGED <<sessionVars, envVars, probeVars, log, open_browsers,
                   capture_queue, qi, mpc, history, airtable_records>>

Next ==
    \/ Launch
    \/ NewContext
    \/ InstallRoute
    \/ SetupRaises
    \/ Goto
    \/ AcceptCookies
    \/ WaitCarousel
    \/ Locate
    \/ QueryIndicators
    \/ StartFrame
    \/ FinishLoop
    \/ ForceNavigate
    \/ Sanitize
    \/ Verify
    \/ Capture
    \/ StepRaises
    \/ CloseBrowser

Spec == Init /\ [][Next]_vars

NextLocator == Locate

SpecLocator == InitLocator /\ [][NextLocator]_vars

NextScore == Locate

SpecScore == InitScore /\ [][NextScore]_vars

(***************************************************************************)
(* A session on a page whose frames all differ: every verify finds a       *)
(* signature not seen before at the requested index, every capture         *)
(* resolves its element, and no page call raises.                          *)
(***************************************************************************)
InitHappy ==
    /\ page \in SessionPages
    /\ mode \in {"desktop", "mobile"}
    /\ pc = "start"
    /\ FreshSession
    /\ NoBatch
    /\ country_code = "xx"
    /\ upload_to_cloud = FALSE
    /\ credentials = TRUE
    /\ sig_pool = AllSignatures
    /\ clock \in Timestamps
    /\ dom = LoadedDom

NextHappy ==
    \/ Launch
    \/ NewContext
    \/ InstallRoute
    \/ Goto
    \/ AcceptCookies
    \/ WaitCarousel
    \/ Locate
    \/ QueryIndicators
    \/ StartFrame
    \/ FinishLoop
    \/ ForceNavigate
    \/ Sanitize
    \/ (Verify /\ is_correct_index' /\ current_sig' \notin Range(captured_signatures)
               /\ element' # "None")
    \/ (Capture /\ Len(results') = Len(results) + 1)
    \/ CloseBrowser

SpecHappy == InitHappy /\ [][NextHappy]_vars

(***************************************************************************)
(* A session with upload_to_cloud set, with and without credentials, on    *)
(* carousels of MaxBatchSlides indicators or fewer.                        *)
(***************************************************************************)
InitUpload ==
    /\ page \in SessionPages
    /\ mode \in {"desktop"}
    /\ pc = "start"
    /\ FreshSession
    /\ NoBatch
    /\ country_code = "xx"
    /\ upload_to_cloud = TRUE
    /\ credentials \in BOOLEAN
    /\ sig_pool = {"img1|A", "img2|B"}
    /\ clock = "20240101_090000"
    /\ dom = LoadedDom

NextUpload ==
    \/ Launch
    \/ NewContext
    \/ InstallRoute
    \/ SetupRaises
    \/ Goto
    \/ AcceptCookies
    \/ WaitCarousel
    \/ Locate
    \/ (QueryIndicators /\ num_slides' <= MaxBatchSlides)
    \/ StartFrame
    \/ FinishLoop
    \/ ForceNavigate
    \/ Sanitize
    \/ Verify
    \/ Capture
    \/ StepRaises
    \/ CloseBrowser

SpecUpload == InitUpload /\ [][NextUpload]_vars

(***************************************************************************)
(* A session whose every step returns or raises: capture_hero_banners is   *)
(* sequential code and main keeps iterating the generator (lines 766,      *)
(* 802), so a step that can be taken is taken. On carousels of             *)
(* MaxBatchSlides indicators or fewer whose slides render two signatures.  *)
(***************************************************************************)
InitLive ==
    /\ page \in SessionPages
    /\ mode \in {"desktop"}
    /\ pc = "start"
    /\ FreshSession
    /\ NoBatch
    /\ country_code = "xx"
    /\ upload_to_cloud = FALSE
    /\ credentials = TRUE
    /\ sig_pool = {"img1|A", "img2|B"}
    /\ clock = "20240101_090000"
    /\ dom = LoadedDom

NextLive ==
    \/ Launch
    \/ NewContext
    \/ InstallRoute
    \/ SetupRaises
    \/ Goto
    \/ AcceptCookies
    \/ WaitCarousel
    \/ Locate
    \/ (QueryIndicators /\ num_slides' <= MaxBatchSlides)
    \/ StartFrame
    \/ FinishLoop
    \/ ForceNavigate
    \/ Sanitize
    \/ Verify
    \/ Capture
    \/ StepRaises
    \/ CloseBrowser

SpecLive == InitLive /\ [][NextLive]_vars /\ WF_vars(NextLive)

(***************************************************************************)
(* The requests of a session from its start to the wait for the carousel.  *)
(***************************************************************************)
NextNet ==
    \/ Launch
    \/ NewContext
    \/ InstallRoute
    \/ SetupRaises
    \/ Goto
    \/ AcceptCookies
    \/ WaitCarousel
    \/ RouteRequest
    \/ (StepRaises /\ pc \in {"routed", "cookies"})
    \/ CloseBrowser

InitNet ==
    /\ page \in {<<HeroCarousel>>, <<>>}
    /\ mode \in {"desktop"}
    /\ pc = "start"
    /\ FreshSession
    /\ NoBatch
    /\ country_code = "xx"
    /\ upload_to_cloud = FALSE
    /\ credentials = TRUE
    /\ sig_pool = Signatures
    /\ clock = "20240101_090000"
    /\ dom = LoadedDom

SpecNet == InitNet /\ [][NextNet]_vars

(***************************************************************************)
(* apply_clean_styles called again and again on one document.              *)
(***************************************************************************)
InitSanitize ==
    /\ page \in {<<HeroCarousel>>}
    /\ mode \in {"desktop"}
    /\ pc = "sanitize"
    /\ FreshSession
    /\ NoBatch
    /\ country_code = "xx"
    /\ upload_to_cloud = FALSE
    /\ credentials = TRUE
    /\ sig_pool = Signatures
    /\ clock = "20240101_090000"
    /\ dom \in Doms

NextSanitize == ApplyCleanStyles

SpecSanitize == InitSanitize /\ [][NextSanitize]_vars

(***************************************************************************)
(* upload_to_cloudinary and save_to_airtable called again and again, with  *)
(* and without their settings, on every answer of the two transports.      *)
(***************************************************************************)
InitTransport ==
    /\ page \in {<<HeroCarousel>>}
    /\ mode \in {"desktop", "mobile"}
    /\ pc = "capture"
    /\ FreshSession
    /\ NoBatch
    /\ country_code \in Range(Sites)
    /\ upload_to_cloud = TRUE
    /\ credentials \in BOOLEAN
    /\ sig_pool = Signatures
    /\ clock = "20240101_090000"
    /\ dom = LoadedDom

NextTransport ==
    \/ UploadCall
    \/ SaveCall

SpecTransport == InitTransport /\ [][NextTransport]_vars

(***************************************************************************)
(* A batch run over a queue of two sites or more (lines 736-738, 789-818). *)
(***************************************************************************)
\* The pages of the sites of a batch: one with the hero carousel, one
\* without a carousel the locator accepts.
BatchPages == {<<HeroCarousel>>, <<StripCarousel>>}

BatchStart ==
    /\ page = <<>>
    /\ mode \in {"desktop"}
    /\ pc = "idle"
    /\ FreshSession
    /\ qi = 1
    /\ stop_requested = FALSE
    /\ mpc = "check"
    /\ history = <<>>
    /\ airtable_records = <<>>
    /\ last_request = NoRequest
    /\ applied = 0
    /\ last_call = NoCall
    /\ log = {}
    /\ open_browsers = 0
    /\ country_code = "none"
    /\ credentials = TRUE
    /\ sig_pool = {"img1|A"}
    /\ clock = "20240101_090000"
    /\ dom = LoadedDom

InitBatch ==
    /\ BatchStart
    /\ \E n \in 2..MaxQueue : capture_queue = SubSeq(Sites, 1, n)
    /\ upload_to_cloud = FALSE

NextBatch ==
    \/ BatchStop
    \/ (StartSession /\ page' \in BatchPages)
    \/ EndSession
    \/ SessionEscapes
    \/ BatchComplete
    \/ StopClicked
    \/ Launch
    \/ NewContext
    \/ InstallRoute
    \/ SetupRaises
    \/ Goto
    \/ AcceptCookies
    \/ WaitCarousel
    \/ Locate
    \/ (QueryIndicators /\ num_slides' <= MaxBatchSlides)
    \/ StartFrame
    \/ FinishLoop
    \/ ForceNavigate
    \/ Sanitize
    \/ Verify
    \/ Capture
    \/ StepRaises
    \/ CloseBrowser

SpecBatch == InitBatch /\ [][NextBatch]_vars

(***************************************************************************)
(* A batch run with upload enabled: the uploads of the frames and the      *)
(* record of each session (lines 800-808).                                 *)
(***************************************************************************)
InitRecords ==
    /\ BatchStart
    /\ capture_queue = SubSeq(Sites, 1, 2)
    /\ upload_to_cloud = TRUE

NextRecords ==
    \/ (StartSession /\ page' \in BatchPages)
    \/ EndSession
    \/ SessionEscapes
    \/ BatchComplete
    \/ Launch
    \/ NewContext
    \/ InstallRoute
    \/ SetupRaises
    \/ Goto
    \/ AcceptCookies
    \/ WaitCarousel
    \/ Locate
    \/ (QueryIndicators /\ num_slides' <= MaxBatchSlides)
    \/ StartFrame
    \/ FinishLoop
    \/ ForceNavigate
    \/ Sanitize
    \/ Verify
    \/ Capture
    \/ StepRaises
    \/ CloseBrowser

SpecRecords == InitRecords /\ [][NextRecords]_vars

(***************************************************************************)
(* Properties.                                                             *)
(***************************************************************************)

\* C1: within one session no two emitted results were captured with the
\* same slide signature.
C1_NoDuplicateSignature ==
    \A j \in DOMAIN results : \A k \in DOMAIN results :
        j # k => results[j].sig # results[k].sig

\* C2: a result is emitted only from an attempt in which both verify checks
\* passed: the signature read was not yet captured in this session and the
\* active slide reported the requested index; on every attempt, the 4th too.
C2_EmittedOnlyWhenVerified ==
    [][ results' # results =>
          /\ current_sig \notin Range(captured_signatures)
          /\ is_correct_index ]_vars

\* C3: a frame whose verify step failed on all 4 attempts emits no result,
\* and the engine goes on to the next frame (for N = 5 with frame 3 always
\* a duplicate: results for frames 1, 2, 4 and 5 only).
C3_ExhaustedFrameIsSkipped ==
    [][ (pc = "capture" /\ failed_verifies = 4 /\ pc' # "finally") =>
          /\ results' = results
          /\ i' = i + 1
          /\ pc' = "loop" ]_vars

\* C4: find_hero_carousel never returns an element nested inside an
\* excluded wrapper, from the structural pass or from the scoring fallback.
C4_NeverReturnsExcluded ==
    (pc \in {"located", "finally"} /\ hero # 0) =>
        page[hero].wrapper \notin
            {"c-notification-banner", "l-cookie-teaser", "c-membership-popup"}

\* An excluded carousel that passes the structural test and carries the
\* hero-banner marker precedes the returned one.
C4_Witness ==
    /\ pc = "located"
    /\ hero > 1
    /\ \E k \in 1..(hero - 1) :
         /\ page[k].wrapper = "c-notification-banner"
         /\ page[k].nInd > 0
         /\ page[k].bbox.present
         /\ page[k].bbox.height >= 300
         /\ page[k].has_hero_banner
         /\ page[k].anc = page[hero].anc

C6_NavigatesLocatedCarousel ==
    pc \in {"sanitize", "verify", "capture"} => navTarget = hero

\* The (selector, element) pairs of the structural pass whose element is
\* outside every excluded wrapper, has an indicator and is at least 300 high.
StructuralQualifiers ==
    { q \in (1..Len(hero_selectors)) \X (1..Len(page)) :
        /\ SelectorMatches(hero_selectors[q[1]], page[q[2]])
        /\ page[q[2]].wrapper = "none"
        /\ page[q[2]].nInd >= 1
        /\ page[q[2]].bbox.present
        /\ page[q[2]].bbox.height >= 300 }

Eligible ==
    { k \in 1..Len(page) :
        /\ page[k].wrapper = "none"
        /\ page[k].nInd # 0
        /\ page[k].bbox.present
        /\ page[k].bbox.height >= 200
        /\ 2 * page[k].bbox.width >= ViewportWidth(mode)
        /\ ~KeywordDetected(page[k]) }

ScoreOf(k) == Score(page[k], ViewportWidth(mode))

C9_ResultsInIndicatorOrder ==
    /\ Len(results) <= (IF num_slides < 0 THEN 0 ELSE num_slides)
    /\ \A k \in DOMAIN results : results[k].slide_num \in 1..num_slides
    /\ \A j \in DOMAIN results : \A k \in DOMAIN results :
          j < k => results[j].slide_num < results[k].slide_num

\* A completed session of 3 indicators that emitted frames 1 and 3 only.
C9_Witness ==
    /\ pc = "done"
    /\ outcome = "completed"
    /\ num_slides = 3
    /\ Len(results) = 2
    /\ results[1].slide_num = 1
    /\ results[2].slide_num = 3

\* C10: with 0 indicators the session emits nothing, makes no navigation
\* attempt, raises no error and ends normally.
C10_ZeroIndicators ==
    num_slides = 0 =>
        /\ results = <<>>
        /\ pc \in {"loop", "finally", "done"}
        /\ navTarget = 0
        /\ outcome \in {"running", "completed"}
        /\ pc = "done" => (outcome = "completed" /\ browser = "closed")

\* A session that read 0 indicators has ended.
C10_Witness ==
    /\ pc = "done"
    /\ num_slides = 0
    /\ hero # 0
    /\ outcome = "completed"

(***************************************************************************)
(* C11: when every frame of an N-indicator carousel renders a signature    *)
(* not seen before at the requested index and every capture resolves its   *)
(* element, the session emits exactly N results numbered 1..N in order,    *)
(* the file of frame k is named {site}_{mode}_hero_{k}.jpg inside the      *)
(* directory {site}_{mode}_{timestamp}, and N distinct signatures are      *)
(* recorded. Checked under SpecHappy.                                      *)
(***************************************************************************)
C11_HappySessionEmitsAll ==
    /\ \A k \in DOMAIN results :
         /\ results[k].slide_num = k
         /\ results[k].filepath.name = <<country_code, "_", mode, "_hero_", k, ".jpg">>
         /\ results[k].filepath.dir = <<country_code, "_", mode, "_", clock>>
    /\ Len(captured_signatures) = Len(results)
    /\ Cardinality(Range(captured_signatures)) = Len(results)
    /\ outcome = "completed" => Len(results) = num_slides

C11_Witness ==
    /\ pc = "done"
    /\ outcome = "completed"
    /\ num_slides = 3
    /\ mode = "desktop"
    /\ Len(results) = 3
    /\ results[1].filepath.name = <<"xx", "_", "desktop", "_hero_", 1, ".jpg">>
    /\ results[2].filepath.name = <<"xx", "_", "desktop", "_hero_", 2, ".jpg">>
    /\ results[3].filepath.name = <<"xx", "_", "desktop", "_hero_", 3, ".jpg">>
    /\ Cardinality(Range(captured_signatures)) = 3

\* The batch loop hands over: a finished session is followed by the check
\* for the next queue entry, and with the flag clear that entry's session
\* is started on the site at position qi.
BatchGoesOn ==
    /\ (mpc = "session" /\ pc = "done" /\ mpc' # mpc) => (mpc' = "check" /\ qi' = qi + 1)
    /\ (mpc = "check" /\ qi <= Len(capture_queue) /\ ~stop_requested /\ mpc' # mpc) =>
          (mpc' = "session" /\ pc' = "start" /\ country_code' = capture_queue[qi])

(***************************************************************************)
(* C12: in a batch, an exception of page.goto or of the wait for the       *)
(* carousel (a timeout) takes the session to its finally clause with no    *)
(* frame attempted and no result, and the batch goes on with the next      *)
(* entry of the queue. Checked under SpecBatch.                            *)
(***************************************************************************)
C12_TimeoutEndsSessionOnly ==
    [][ /\ (pc \in {"routed", "cookies"} /\ pc' \notin {pc, "loaded", "ready"}) =>
              (pc' = "finally" /\ outcome' = "error" /\ mpc' = "session")
        /\ (outcome = "error" /\ hero = 0) =>
              /\ num_slides = -1 /\ results = <<>> /\ navTarget = 0
              /\ pc \in {"finally", "done"}
              /\ mpc' = mpc => pc' \in {"finally", "done"}
        /\ BatchGoesOn ]_vars

C12_Witness ==
    /\ mpc = "session"
    /\ qi = 2
    /\ history[1].outcome = "error"
    /\ ~history[1].located
    /\ country_code = capture_queue[2]
    /\ pc = "launched"

(***************************************************************************)
(* C13 as stated: a timeout of the wait for the active slide of frame i    *)
(* takes the session to its end, the emitted results kept.                 *)
(***************************************************************************)
C13_ReadinessTimeoutAborts ==
    [][ (pc = "verify" /\ active_slide_selector' = "generic") =>
           (pc' = "finally" /\ results' = results) ]_vars

(***************************************************************************)
(* C13 amended: a timeout of the wait for the active slide of frame i is   *)
(* swallowed: the attempt goes on to the capture of frame i with the       *)
(* generic active-slide selector, no frame is aborted and the emitted      *)
(* results are kept. Checked under Spec.                                   *)
(***************************************************************************)
C13_ReadinessTimeoutSwallowed ==
    [][ (pc = "verify" /\ active_slide_selector' = "generic") =>
           /\ pc' = "capture"
           /\ outcome' = outcome
           /\ results' = results
           /\ i' = i
           /\ attempt' = attempt ]_vars

C13_Witness ==
    /\ pc = "capture"
    /\ active_slide_selector = "generic"
    /\ outcome = "running"
    /\ i = 1
    /\ Len(results) = 1

(***************************************************************************)
(* C14: when find_hero_carousel returns nothing the session goes straight  *)
(* to its finally clause: the failure is logged, no navigation is made, no *)
(* result is emitted, the browser is closed, and the batch goes on with    *)
(* the next entry of the queue. Checked under SpecBatch.                   *)
(***************************************************************************)
C14_NotFoundEndsSessionOnly ==
    [][ /\ (pc = "ready" /\ pc' # pc /\ hero' = 0) =>
              (pc' = "finally" /\ outcome' = "notfound" /\ "not_found" \in log')
        /\ outcome = "notfound" =>
              /\ results = <<>> /\ navTarget = 0 /\ num_slides = -1
              /\ pc \in {"finally", "done"}
              /\ pc = "done" => browser = "closed"
              /\ (mpc' = mpc /\ pc' # pc) => (pc' = "done" /\ browser' = "closed")
        /\ BatchGoesOn ]_vars

C14_Witness ==
    /\ mpc = "session"
    /\ qi = 2
    /\ history[1].outcome = "notfound"
    /\ ~history[1].located
    /\ "not_found" \in log
    /\ open_browsers = 0
    /\ pc = "start"

\* A step of the running session.
SessionStep == pc' # pc /\ mpc' = mpc

(***************************************************************************)
(* C15: in a batch the flag decides only at the start of an iteration: a   *)
(* session is started only with the flag clear, with the flag set the loop *)
(* is left and nothing runs after that; a running session is left only at  *)
(* its end, setting the flag changes nothing of it, and with the flag set  *)
(* it still has a next step. Checked under SpecBatch.                      *)
(***************************************************************************)
C15_StopOnlyAtSessionBoundary ==
    /\ [][ /\ (mpc = "check" /\ mpc' = "session") => ~stop_requested
           /\ (mpc = "check" /\ qi <= Len(capture_queue) /\ stop_requested) =>
                 mpc' \in {"check", "stopped"}
           /\ mpc = "stopped" => (mpc' = "stopped" /\ pc' = pc /\ qi' = qi)
           /\ (mpc = "session" /\ mpc' # mpc) => pc \in {"done", "raised"}
           /\ stop_requested' # stop_requested =>
                 (stop_requested' /\ mpc' = mpc /\ UNCHANGED sessionVars) ]_vars
    /\ []((mpc = "session" /\ stop_requested /\ pc \notin {"done", "raised"}) =>
              ENABLED (NextBatch /\ SessionStep))

C15_Witness ==
    /\ mpc = "stopped"
    /\ stop_requested
    /\ qi = 2
    /\ Len(history) = 1
    /\ history[1].outcome = "completed"
    /\ Len(results) = 2
    /\ browser = "closed"

(***************************************************************************)
(* C16: in a batch at most one browser is open at any time, and none is    *)
(* open when an iteration of the loop begins or a session is about to      *)
(* launch its own. Checked under SpecBatch.                                *)
(***************************************************************************)
C16_OneBrowserAtATime ==
    /\ open_browsers \in {0, 1}
    /\ mpc = "check" => open_browsers = 0
    /\ (mpc = "session" /\ pc = "start") => open_browsers = 0

C16_Witness ==
    /\ mpc = "session"
    /\ qi = 2
    /\ browser = "open"
    /\ open_browsers = 1
    /\ history[1].outcome = "error"

(***************************************************************************)
(* C17: with upload_to_cloud set, the capture of a frame always ends with  *)
(* the frame's result emitted, whatever the upload did: without            *)
(* credentials, or with both transports failing, the result carries no     *)
(* hosted URL, the session does not end and the loop goes to the next      *)
(* frame. Checked under SpecUpload.                                        *)
(***************************************************************************)
C17_UploadFailureKeepsCapture ==
    [][ /\ (pc = "capture" /\ Len(captured_signatures') = Len(captured_signatures) + 1) =>
              /\ Len(results') = Len(results) + 1
              /\ results'[Len(results')].slide_num = i + 1
              /\ results'[Len(results')].cloudinary_url \in {"None", "secure_url"}
              /\ ~credentials => results'[Len(results')].cloudinary_url = "None"
              /\ outcome' = outcome
              /\ pc' = "loop"
              /\ i' = i + 1
        /\ (pc = "loop" /\ i < num_slides /\ pc' # pc) => pc' = "navigate" ]_vars

C17_Witness ==
    /\ credentials
    /\ upload_to_cloud
    /\ Len(results) = 2
    /\ results[1].cloudinary_url = "None"
    /\ results[2].slide_num = 2

(***************************************************************************)
(* C18: the handler is registered before page.goto starts, and every       *)
(* request that reaches it gets exactly one decision: abort when the URL   *)
(* holds a blocklist keyword in any letter case, continue otherwise.       *)
(* Checked under SpecNet.                                                  *)
(***************************************************************************)
C18_OneDecisionPerRequest ==
    /\ pc \in {"routed", "loaded", "cookies", "ready"} => route_installed
    /\ last_request # NoRequest =>
          /\ last_request.aborts + last_request.continues = 1
          /\ last_request.aborts = 1 <=>
                \E k \in DOMAIN last_request.url :
                    last_request.url[k] \in
                        {"Genesys", "liveperson", "salesforceliveagent", "adobe-privacy",
                         "CHATBOT", "proactive-chat"}

C18_Witness ==
    /\ pc = "loaded"
    /\ last_request.url = <<"lg", "Genesys">>
    /\ last_request.aborts = 1
    /\ last_request.continues = 0

(***************************************************************************)
(* C19: what the page shows after apply_clean_styles has run twice is what *)
(* it shows after one run: the same elements removed and hidden, the same  *)
(* style overrides in force, the same videos paused. Checked under         *)
(* SpecSanitize.                                                           *)
(***************************************************************************)
C19_SanitizeIdempotent ==
    /\ VisualState(apply_clean_styles(apply_clean_styles(dom)))
          = VisualState(apply_clean_styles(dom))
    /\ applied >= 1 => VisualState(apply_clean_styles(dom)) = VisualState(dom)

C19_Witness ==
    /\ applied = 2
    /\ dom.style_elements = 2
    /\ dom.notification_banners = 0
    /\ dom.playing = {}

(***************************************************************************)
(* C20 as stated: the sanitize step never ends the session: from the       *)
(* sanitize step the attempt always goes on to the verify step.            *)
(***************************************************************************)
C20_SanitizeNeverThrows ==
    [][ pc = "sanitize" => (pc' \in {"sanitize", "verify"} /\ outcome' = outcome) ]_vars

(***************************************************************************)
(* The filters of the scoring fallback.                                    *)
(***************************************************************************)

\* C23: the scoring fallback never selects a carousel with zero
\* indicators, a height under 200, a width under half the viewport width,
\* or visible text that holds a legal, cookie or notice keyword.
C23_FallbackDropsUnsuitable ==
    (pc = "located" /\ fallback_ran) =>
        /\ page[hero].nInd > 0
        /\ page[hero].bbox.height >= 200
        /\ 2 * page[hero].bbox.width >= ViewportWidth(mode)
        /\ ~page[hero].text_kw

(***************************************************************************)
(* The transports of the upload and of the record save.                    *)
(***************************************************************************)

\* C26: in every call of upload_to_cloudinary and of save_to_airtable the
\* direct request is attempted only after the SDK call was made and failed,
\* and at most once; when the SDK call succeeds the direct request is not
\* attempted; when both fail the call returns no URL or id and raises
\* nothing.
C26_FallbackOnlyAfterPrimaryFailed ==
    last_call.function # "none" =>
        /\ last_call.fallback_calls <= 1
        /\ last_call.sdk_calls <= 1
        /\ last_call.fallback_calls = 1 =>
              (last_call.sdk_calls = 1 /\ ~last_call.sdk_ok)
        /\ (last_call.sdk_calls = 1 /\ last_call.sdk_ok) =>
              (last_call.fallback_calls = 0 /\ last_call.returned # "None")
        /\ (last_call.fallback_calls = 1 /\ ~last_call.fallback_ok) =>
              last_call.returned = "None"
        /\ ~last_call.raised

\* A save with the settings present whose pyairtable call and direct
\* request both failed: both were made once and no id came back.
C26_Witness ==
    /\ last_call.function = "save_to_airtable"
    /\ last_call.configured
    /\ last_call.sdk_calls = 1
    /\ last_call.fallback_calls = 1
    /\ ~last_call.sdk_ok
    /\ ~last_call.fallback_ok
    /\ last_call.returned = "None"
    /\ last_call.created = <<>>

(***************************************************************************)
(* The score of the fallback.                                              *)
(***************************************************************************)

\* The height tiers whose threshold the height exceeds.
HeightTiers(h) ==
    { tier \in {50, 30, 10} :
        h > (IF tier = 50 THEN 400 ELSE IF tier = 30 THEN 300 ELSE 200) }

\* The highest of a set of tiers, 0 for none.
HighestTier(tiers) ==
    IF tiers = {} THEN 0
    ELSE CHOOSE tier \in tiers : \A other \in tiers : other <= tier

\* The position term as the claim lists it, 0 on and between the intervals.
PositionTerm(y) ==
    CASE 100 < y /\ y < 600 -> 25
      [] 50 < y /\ y < 100 -> -20
      [] y < 50 -> -100
      [] y = 50 \/ y = 100 \/ y >= 600 -> 0

\* The width term: the share of the viewport in tenths, rounded down.
WidthTerm(w, viewport_width) ==
    IF 10 * w > 9 * viewport_width THEN 20
    ELSE IF 10 * w > 8 * viewport_width /\ 10 * w <= 9 * viewport_width THEN 15
    ELSE 0

\* The sum of the terms of one carousel, with the given height term.
SumOfTerms(c, height_term) ==
      (IF c.has_hero_banner THEN 100 ELSE 0)
    + (IF c.has_hero_image THEN 50 ELSE 0)
    + (IF c.bbox.width * c.bbox.height > 500000 THEN 30 ELSE 0)
    + height_term
    + PositionTerm(c.bbox.y)
    + WidthTerm(c.bbox.width, ViewportWidth(mode))

\* The candidates the fallback scored on the page of the state.
ScoredCandidates == Candidates(page, ViewportWidth(mode), 1)

\* C22 as stated: the score of every candidate that survives the filters
\* is the sum of the marker, area, position and width terms and of exactly
\* one height tier (+50 above 400, else +30 above 300, else +10 above 200).
C22_ExactlyOneHeightTier ==
    (pc \in {"located", "finally"} /\ fallback_ran) =>
        \A k \in DOMAIN ScoredCandidates :
            LET c == page[ScoredCandidates[k].index]
            IN  /\ HeightTiers(c.bbox.height) # {}
                /\ ScoredCandidates[k].score
                      = SumOfTerms(c, HighestTier(HeightTiers(c.bbox.height)))

\* C22 amended: the score of every candidate that survives the filters is
\* the sum of the marker, area, position and width terms and of at most one
\* height tier, the highest one the height exceeds; a candidate exactly 200
\* high survives the filters and gets no height tier.
C22_ScoreIsSumOfTerms ==
    (pc \in {"located", "finally"} /\ fallback_ran) =>
        \A k \in DOMAIN ScoredCandidates :
            LET c == page[ScoredCandidates[k].index]
            IN  /\ c.bbox.height >= 200
                /\ HeightTiers(c.bbox.height) = {} <=> c.bbox.height = 200
                /\ ScoredCandidates[k].score
                      = SumOfTerms(c, HighestTier(HeightTiers(c.bbox.height)))

\* The fallback selected a carousel exactly 200 high at y = 100, exactly
\* 90% of the viewport wide, with the hero-banner marker only: it gets no
\* height tier, no position term and the lower width term, 100 + 15.
C22_Witness ==
    /\ pc = "located"
    /\ fallback_ran
    /\ hero = 1
    /\ page[1].bbox.height = 200
    /\ page[1].bbox.y = 100
    /\ page[1].bbox.width = 1728
    /\ page[1].has_hero_banner
    /\ ~page[1].has_hero_image
    /\ ScoredCandidates[1].score = 115

(***************************************************************************)
(* The capture stage without an element.                                   *)
(***************************************************************************)

\* C25 as stated: when the verify of frame i succeeded and no capturable
\* element is resolved, no result is emitted for frame i, no signature is
\* recorded, the failure is logged, no error is raised and the engine
\* continues with frame i + 1.
C25_UnresolvedFrameIsSkipped ==
    [][ (pc = "capture" /\ element = "None") =>
           /\ results' = results
           /\ captured_signatures' = captured_signatures
           /\ outcome' = outcome
           /\ "slide_failed" \in log'
           /\ i' = i + 1
           /\ pc' = "loop" ]_vars

\* C25 amended: an attempt whose verify succeeded and that resolves no
\* capturable element emits no result, records no signature and raises no
\* error; while one of the 4 attempts remains frame i is tried again from
\* the navigation, and after the 4th attempt the failure is logged and the
\* engine continues with frame i + 1.
C25_UnresolvedAttemptIsSoft ==
    [][ (pc = "capture" /\ element = "None") =>
           /\ results' = results
           /\ captured_signatures' = captured_signatures
           /\ outcome' = outcome
           /\ attempt < 3 =>
                 (pc' = "navigate" /\ i' = i /\ attempt' = attempt + 1 /\ log' = log)
           /\ attempt = 3 =>
                 (pc' = "loop" /\ i' = i + 1 /\ "slide_failed" \in log') ]_vars

\* Frame 2 was given up without an element after frame 1 was emitted: the
\* failure is logged, the session runs on and frame 3 comes next.
C25_Witness ==
    /\ pc = "loop"
    /\ i = 2
    /\ num_slides = 3
    /\ Len(results) = 1
    /\ results[1].slide_num = 1
    /\ "slide_failed" \in log
    /\ "error" \notin log
    /\ outcome = "running"

(***************************************************************************)
(* The list of seen signatures.                                            *)
(***************************************************************************)

\* C27: at every point of a session captured_signatures holds one entry
\* per emitted result, the signature of that result, in order; the list
\* changes only by the capture that took a screenshot of a resolved
\* element and emits a result, and attempts that are retried, that resolve
\* no element or that exhaust the retries add nothing.
C27_OneSignaturePerResult ==
    /\ [](/\ Len(captured_signatures) = Len(results)
          /\ \A k \in DOMAIN results : captured_signatures[k] = results[k].sig)
    /\ [][ captured_signatures' # captured_signatures =>
             /\ pc = "capture"
             /\ element # "None"
             /\ captured_signatures' = Append(captured_signatures, current_sig)
             /\ Len(results') = Len(results) + 1 ]_vars
    /\ [][ (pc' \in {"navigate", "finally"} \/ (pc = "capture" /\ element = "None")) =>
             captured_signatures' = captured_signatures ]_vars

\* Two frames were emitted and one was given up: two signatures are held.
C27_Witness ==
    /\ pc = "loop"
    /\ i = 3
    /\ Len(results) = 2
    /\ Len(captured_signatures) = 2
    /\ captured_signatures[2] = results[2].sig
    /\ "slide_failed" \in log

(***************************************************************************)
(* The signatures of the sessions of a batch.                              *)
(***************************************************************************)

\* C21: every session starts its frames with an empty list of seen
\* signatures, and while its frames are processed the list holds nothing
\* but the signatures of the results this session emitted: a signature
\* captured by an earlier session of the batch is never found in it, so it
\* is never detected as a duplicate.
C21_SessionsShareNoSignatures ==
    /\ [][ (pc = "located" /\ pc' = "loop") => captured_signatures' = <<>> ]_vars
    /\ [](pc \in {"loop", "navigate", "sanitize", "verify", "capture"} =>
            \A k \in DOMAIN captured_signatures :
                \E j \in DOMAIN results : results[j].sig = captured_signatures[k])

\* The second session of a batch reads, on the first attempt of its first
\* frame, a signature the first session captured: the verify lets it pass
\* to the capture without counting a duplicate.
C21_Witness ==
    /\ mpc = "session"
    /\ qi = 2
    /\ pc = "capture"
    /\ i = 0
    /\ attempt = 0
    /\ failed_verifies = 0
    /\ current_sig \in history[1].signatures
    /\ captured_signatures = <<>>

(***************************************************************************)
(* The record of a session.                                                *)
(***************************************************************************)

\* The results of the session that carry a hosted URL.
HostedResults == SelectSeq(results, LAMBDA r : r.cloudinary_url = "secure_url")

\* C28: the record store is written only at the end of a session, after
\* its last frame was processed, at most once, and only when upload is
\* enabled and a frame of the session got a hosted URL; the record holds
\* the site and all hosted URLs of the session in emission order; a
\* session with no hosted URL writes nothing.
C28_OneRecordPerSession ==
    /\ [][ (mpc = "session" /\ mpc' = "check") =>
             /\ pc = "done"
             /\ Len(airtable_records') <= Len(airtable_records) + 1
             /\ HostedResults = <<>> => airtable_records' = airtable_records
             /\ airtable_records' # airtable_records =>
                   /\ upload_to_cloud
                   /\ HostedResults # <<>>
                   /\ airtable_records' =
                         Append(airtable_records,
                                [domain |-> country_code,
                                 banner_type |-> "hero-banner-pc",
                                 URLs |-> [k \in DOMAIN HostedResults |->
                                             HostedResults[k].slide_num]]) ]_vars
    /\ [][ ~(mpc = "session" /\ mpc' = "check") =>
             airtable_records' = airtable_records ]_vars

\* The first session of the batch emitted two frames of which only the
\* second got a hosted URL, and its record holds that URL alone; the
\* second session has begun.
C28_Witness ==
    /\ mpc = "session"
    /\ qi = 2
    /\ Len(airtable_records) = 1
    /\ airtable_records[1].domain = "uk"
    /\ airtable_records[1].URLs = <<2>>
    /\ country_code = "fr"

(***************************************************************************)
(* The attempts of a session.                                              *)
(***************************************************************************)

\* The attempts of frame index idx count from 4 * idx.
AttemptRank(idx, a) == 4 * idx + a

\* C24: every attempt is one of the 4 attempts (0..3) of a frame index
\* below N whose result was not emitted yet; from one navigation to the
\* next the rank 4 * i + attempt grows, so a session of N indicators makes
\* at most 4 * N attempts; and a session that read its N indicators
\* reaches the closing of the browser whatever the page answers.
C24_AttemptsBoundedAndTerminates ==
    /\ [](pc \in {"navigate", "sanitize", "verify", "capture"} =>
            /\ attempt \in 0..3
            /\ i \in 0..(num_slides - 1)
            /\ AttemptRank(i, attempt) < 4 * num_slides
            /\ \A k \in DOMAIN results : results[k].slide_num <= i)
    /\ [][ (pc \in {"verify", "capture"} /\ pc' \in {"navigate", "loop"}) =>
             AttemptRank(i', attempt') > AttemptRank(i, attempt) ]_vars
    /\ [][ (pc = "loop" /\ pc' = "navigate") =>
             (attempt = 0 /\ AttemptRank(i', attempt') = AttemptRank(i, attempt)) ]_vars
    /\ (num_slides >= 0) ~> (pc = "done" /\ browser = "closed")

\* A session of two indicators gave up both frames, each after its 4th
\* attempt, and has closed the browser.
C24_Witness ==
    /\ pc = "done"
    /\ browser = "closed"
    /\ outcome = "completed"
    /\ num_slides = 2
    /\ i = 2
    /\ results = <<>>
    /\ "slide_failed" \in log

====
